---- MODULE Spec2Model ----
(***************************************************************************)
(* Model of the validation orchestrator of run_all_oracle.py: the resume   *)
(* filter, the per-task three-stage pipeline (baseline, test_patch,        *)
(* fix_patch), the in-memory results list and the ledger file              *)
(* oracle_results.jsonl, together with the on-disk working copies that     *)
(* the git / venv / pytest subprocesses act on.                            *)
(***************************************************************************)
EXTENDS Integers, Sequences, FiniteSets, TLC

\* ------------------------------------------------------------------ bounds
\* Longest task list the loader hands to the orchestrator.
MaxTasks == 2
\* Number of orchestrator runs (process starts) in one behaviour.
MaxRuns == 2

\* Lines of a ledger file read on its own.
MaxLines == 3

\* Lines of a model response.
MaxResponseLines == 4

\* Longest task list of a batch script.
MaxBatchTasks == 2

\* Metadata files (oracle_lite.json) of a dataset read on its own.
MaxFiles == 2

\* Runs of a batch script over the same results file.
MaxBatchRuns == 2

\* MAX_REPOS of main(); the source sets 300, scaled here so that the cap is
\* reached by the task lists the model enumerates.
MAX_REPOS == 2

\* ------------------------------------------------------------ input domain
\* Exit statuses of the test command (0 is success).
ExitCodes == {0, 1, 2}
\* Exit statuses of the git, venv and pip commands: success or failure.
CmdExit == {0, 1}

\* The dataset: well-formed tasks (repo of the form owner/name and base_commit
\* present) as built by the loading loop of main().  test_patch / fix_patch
\* may be empty.  Two revisions of one repository and a second repository.
TaskUniverse ==
    { [repo |-> "o/a", base |-> "c1", test_patch |-> "TP", fix_patch |-> "FP"],
      [repo |-> "o/a", base |-> "c2", test_patch |-> "",   fix_patch |-> "FP"],
      [repo |-> "o/b", base |-> "c1", test_patch |-> "TP", fix_patch |-> ""] }

Repos == { t.repo : t \in TaskUniverse }

SeqsUpTo(S, n) == UNION { [1..k -> S] : k \in 0..n }

\* ------------------------------------------------------------------- state
VARIABLES
    loaded,           \* task list built from the dataset (tasks before the filter)
    ledger,           \* lines of RESULTS_PATH, oldest first
    wc,               \* working copy of every repository under REPO_ROOT
    pc,               \* position of main()
    completed_tasks,  \* set returned by load_completed_tasks
    tasks,            \* tasks after the resume filter
    idx,              \* index in tasks of the task being processed
    results,          \* in-memory results list
    repos_processed,  \* repos_processed set
    base_status,      \* local base_status
    test_status,      \* local test_status
    run,              \* number of the current run
    ledger0,          \* history: ledger as it was when the current run started
    shortBefore,      \* history: pairs that short-circuited in an earlier run
    trace,            \* history: subprocess steps of the current task
    causes,           \* history: for each record of results, the step that ended it
    stopped,          \* history: where the last terminated run was stopped
    arg,              \* input of a helper called on its own
    ret,              \* what the helper calls made so far returned
    script,           \* the batch script running: baseline, coder or documenter
    b_pc,             \* position of the batch script
    b_tasks,          \* its task list, as loaded
    b_i,              \* number of tasks its loop has handled
    b_results,        \* rows of its results file, oldest first
    b_files,          \* patch / document files it has saved
    b_hist,           \* history: for each handled task, what happened inside the try
    b_run             \* number of this run of the script and the rows the file had at its start

\* The orchestrator's own state.
mainVars == << loaded, ledger, wc, pc, completed_tasks, tasks, idx, results,
               repos_processed, base_status, test_status, run, ledger0,
               shortBefore, trace, causes >>

\* Everything main() of run_all_oracle.py leaves alone.
\* The state of a batch script (baseline.py, coder.py, documenter.py).
batchVars == << script, b_pc, b_tasks, b_i, b_results, b_files, b_hist,
               b_run >>

aux == << stopped, arg, ret, batchVars >>

vars == << mainVars, aux >>

\* No run has been terminated.
NoStop == [at |-> "none", pair |-> << "none", "none" >>]

\* ----------------------------------------------------------------- run_cmd
\* run_cmd returns ok exactly when the return code is 0.
\* Mutant: only exit status 1 counts as failure.
RunCmdOkMutant(code) == code # 1

run_cmd(code) == code = 0

\* ------------------------------------------------------------ working copy
NoVenv == [state |-> "none", builtAt |-> <<0, 0, "none">>,
           tree |-> <<"none", <<>> >>]

\* Directory does not exist.
NoRepo == [cloned |-> FALSE, head |-> "none", applied |-> <<>>,
           files |-> {}, venv |-> NoVenv]

\* A fresh clone: default branch checked out, nothing untracked.
FreshClone == [cloned |-> TRUE, head |-> "HEAD", applied |-> <<>>,
               files |-> {}, venv |-> NoVenv]

\* Tracked content of a working copy: the commit and the changes on top of it.
Tree(w) == << w.head, w.applied >>

\* ensure_repo_cloned: clone when the directory is missing, else reuse it.
\* Returns the new working copy and whether a directory was returned.
ensure_repo_cloned(w, code) ==
    IF ~w.cloned
    THEN IF run_cmd(code)
         THEN [ok |-> TRUE, w |-> FreshClone]
         ELSE [ok |-> FALSE, w |-> w]
    ELSE [ok |-> TRUE, w |-> w]

\* reset_to_base: git reset --hard base_commit, then git clean -xdf.
\* left: what a failed clean leaves of the untracked files.
\* Mutant: the reset does not move to base_commit.
ResetKeepsHeadMutant(w, base_commit, resetCode, cleanCode, left) ==
    IF ~run_cmd(resetCode)
    THEN [ok |-> FALSE, w |-> w]
    ELSE [ok |-> run_cmd(cleanCode),
          w |-> [w EXCEPT !.applied = <<>>, !.files = {}, !.venv = NoVenv]]

\* git reset --hard alone: untracked files and the environment stay.
ResetWithoutCleanMutant(w, base_commit, resetCode, cleanCode, left) ==
    [ok |-> run_cmd(resetCode),
     w |-> IF run_cmd(resetCode)
           THEN [w EXCEPT !.head = base_commit, !.applied = <<>>]
           ELSE w]

reset_to_base(w, base_commit, resetCode, cleanCode, left) ==
    IF ~run_cmd(resetCode)
    THEN [ok |-> FALSE, w |-> w]
    ELSE LET r == [w EXCEPT !.head = base_commit, !.applied = <<>>]
         IN  IF run_cmd(cleanCode)
             THEN [ok |-> TRUE,
                   w |-> [r EXCEPT !.files = {}, !.venv = NoVenv]]
             ELSE [ok |-> FALSE,
                   w |-> [r EXCEPT !.files = left]]

\* apply_patch: no-op success on empty text; otherwise write <label>.patch and
\* git apply --index --reject.  A failing apply may leave the hunks that did
\* apply together with .rej files (partial), or nothing.
\* The early return on empty text taken out: the file is written and git
\* apply runs whatever the text is.
ApplyAlwaysRunsGitMutant(w, patch_text, label, code, partial) ==
    LET f == [w EXCEPT !.files = @ \cup {label \o ".patch"}]
    IN  IF run_cmd(code)
        THEN [ok |-> TRUE, w |-> [f EXCEPT !.applied = Append(@, label)]]
        ELSE IF partial
             THEN [ok |-> FALSE,
                   w |-> [f EXCEPT !.applied = Append(@, label \o "~rej"),
                                   !.files = @ \cup {"rej"}]]
             ELSE [ok |-> FALSE, w |-> f]

apply_patch(w, patch_text, label, code, partial) ==
    IF patch_text = ""
    THEN [ok |-> TRUE, w |-> w]
    ELSE LET f == [w EXCEPT !.files = @ \cup {label \o ".patch"}]
         IN  IF run_cmd(code)
             THEN [ok |-> TRUE, w |-> [f EXCEPT !.applied = Append(@, label)]]
             ELSE IF partial
                  THEN [ok |-> FALSE,
                        w |-> [f EXCEPT !.applied = Append(@, label \o "~rej"),
                                        !.files = @ \cup {"rej"}]]
                  ELSE [ok |-> FALSE, w |-> f]

\* create_venv_and_install: rm -rf .venv when it exists, python3 -m venv,
\* then the three install commands; the last one ends in "|| true".
\* codes = <<rm, venv, pip upgrade, pip install -e ., pytest install>>.
\* The "|| true" taken off the last command: its exit status counts.
VenvLastInstallFatalMutant(w, stamp, codes) ==
    LET broken == [w EXCEPT !.venv = [state |-> "broken", builtAt |-> stamp,
                                      tree |-> Tree(w)]]
    IN
    IF w.venv.state # "none" /\ ~run_cmd(codes[1])
    THEN [ok |-> FALSE, w |-> w]
    ELSE IF \E k \in 2..5 : ~run_cmd(codes[k]) THEN [ok |-> FALSE, w |-> broken]
    ELSE [ok |-> TRUE,
          w |-> [w EXCEPT !.venv = [state |-> "ok", builtAt |-> stamp,
                                    tree |-> Tree(w)]]]

create_venv_and_install(w, stamp, codes) ==
    LET broken == [w EXCEPT !.venv = [state |-> "broken", builtAt |-> stamp,
                                      tree |-> Tree(w)]]
    IN
    IF w.venv.state # "none" /\ ~run_cmd(codes[1])
    THEN [ok |-> FALSE, w |-> w]
    ELSE IF ~run_cmd(codes[2]) THEN [ok |-> FALSE, w |-> broken]
    ELSE IF ~run_cmd(codes[3]) THEN [ok |-> FALSE, w |-> broken]
    ELSE IF ~run_cmd(codes[4]) THEN [ok |-> FALSE, w |-> broken]
    ELSE IF ~(run_cmd(codes[5]) \/ TRUE) THEN [ok |-> FALSE, w |-> broken]
    ELSE [ok |-> TRUE,
          w |-> [w EXCEPT !.venv = [state |-> "ok", builtAt |-> stamp,
                                    tree |-> Tree(w)]]]

\* run_tests: ok is the exit status of the one test command.
run_tests(code) == run_cmd(code)

\* A failing test run reported like a failing step.
StatusErrorMutant(ok) == IF ok THEN "PASS" ELSE "ERROR"

\* "PASS" if ok else "FAIL"
StatusOf(ok) == IF ok THEN "PASS" ELSE "FAIL"

\* ------------------------------------------------------------------ ledger
\* One line of the ledger file: json.dumps(record) + "\n".
JsonLine(record) == [kind |-> "json", row |-> record]

\* load_completed_tasks: the (repo, base_commit) of every line, read in order;
\* blank lines are skipped, and the first line that does not parse ends the
\* reading (the except clause), keeping what was added before it.
RECURSIVE LoadFrom(_, _, _)
LoadFrom(lines, i, completed) ==
    IF i > Len(lines) THEN completed
    ELSE IF lines[i].kind = "blank" THEN LoadFrom(lines, i + 1, completed)
    ELSE IF lines[i].kind # "json" THEN completed
    ELSE LoadFrom(lines, i + 1,
                  completed \cup { << lines[i].row.repo,
                                      lines[i].row.base_commit >> })

\* A run that does not look at the ledger.
LoadIgnoresLedgerMutant(lines) == {}

load_completed_tasks(lines) == LoadFrom(lines, 1, {})

\* A filter that also drops a task whose pair an earlier task of the list has.
RECURSIVE DropRepeated(_, _)
DropRepeated(ts, seen) ==
    IF ts = <<>> THEN <<>>
    ELSE IF << Head(ts).repo, Head(ts).base >> \in seen
         THEN DropRepeated(Tail(ts), seen)
         ELSE << Head(ts) >> \o
              DropRepeated(Tail(ts), seen \cup { << Head(ts).repo, Head(ts).base >> })

FilterOncePerPairMutant(ts, completed) == DropRepeated(ts, completed)

\* tasks = [t for t in tasks if (t["repo"], t["base"]) not in completed_tasks]
NoFilterMutant(ts, completed) == ts

FilterTasks(ts, completed) ==
    IF completed = {} THEN ts
    ELSE SelectSeq(ts, LAMBDA t : << t.repo, t.base >> \notin completed)

\* ---------------------------------------------------------- result records
Record(info, b, t, f, note) ==
    [repo |-> info.repo, base_commit |-> info.base,
     baseline |-> b, test_patch |-> t, fix_patch |-> f, note |-> note]

RecCloneFailed(info) ==
    Record(info, "ERROR", "SKIP", "SKIP", "clone_failed")

RecResetFailedBaseline(info) ==
    Record(info, "ERROR", "SKIP", "SKIP", "reset_failed_baseline")

RecVenvFailedBaseline(info) ==
    Record(info, "ERROR", "SKIP", "SKIP", "venv_install_failed_baseline")

\* Mutant: the stage after the failing one is not marked SKIP.
RecResetFailedTestPatchMutant(info, bs) ==
    Record(info, bs, "ERROR", "ERROR", "reset_failed_test_patch")

RecResetFailedTestPatch(info, bs) ==
    Record(info, bs, "ERROR", "SKIP", "reset_failed_test_patch")

RecApplyTestPatchFailed(info, bs) ==
    Record(info, bs, "ERROR", "SKIP", "apply_test_patch_failed")

\* Mutant: the note of the baseline block copied unchanged.
RecVenvFailedTestPatchMutant(info, bs) ==
    Record(info, bs, "ERROR", "SKIP", "venv_install_failed_baseline")

RecVenvFailedTestPatch(info, bs) ==
    Record(info, bs, "ERROR", "SKIP", "venv_install_failed_test_patch")

RecResetFailedFixPatch(info, bs, ts) ==
    Record(info, bs, ts, "ERROR", "reset_failed_fix_patch")

RecApplyTestPatchFailedFixPhase(info, bs, ts) ==
    Record(info, bs, ts, "ERROR", "apply_test_patch_failed_fix_phase")

RecApplyFixPatchFailed(info, bs, ts) ==
    Record(info, bs, ts, "ERROR", "apply_fix_patch_failed")

RecVenvFailedFixPatch(info, bs, ts) ==
    Record(info, bs, ts, "ERROR", "venv_install_failed_fix_patch")

RecOk(info, bs, ts, fs) ==
    Record(info, bs, ts, fs, "ok")

\* -------------------------------------------------------------------- main
\* The task of the current loop iteration.
Info == tasks[idx]

\* One subprocess step of the current task, as the history records it: the
\* helper called, the stage it was called in, what it returned, and for a
\* test run the exit status of the test command.
Event(op, stage, ok, code) == [op |-> op, stage |-> stage, ok |-> ok, code |-> code]

Stamp(stage) == << run, idx, stage >>

\* results.append(record); continue
ShortCircuit(record, ev) ==
    /\ results' = Append(results, record)
    /\ causes' = Append(causes, ev)
    /\ pc' = "loop"

\* No batch script is running.
NoBatch ==
    /\ script = "none"
    /\ b_pc = "none"
    /\ b_tasks = <<>>
    /\ b_i = 0
    /\ b_results = <<>>
    /\ b_files = {}
    /\ b_hist = <<>>
    /\ b_run = [n |-> 0, rows0 |-> 0]

\* The state main() of run_all_oracle.py starts in, for a dataset taken from
\* the given set.
MainInit(datasets) ==
    /\ loaded \in datasets
    /\ ledger = <<>>
    /\ wc = [r \in Repos |-> NoRepo]
    /\ pc = "start"
    /\ completed_tasks = {}
    /\ tasks = <<>>
    /\ idx = 0
    /\ results = <<>>
    /\ repos_processed = {}
    /\ base_status = ""
    /\ test_status = ""
    /\ run = 1
    /\ ledger0 = <<>>
    /\ shortBefore = {}
    /\ trace = <<>>
    /\ causes = <<>>
    /\ stopped = NoStop

\* The orchestrator at its start; a helper called on its own gets its input
\* from inputs.
InitWith(datasets, inputs) ==
    /\ MainInit(datasets)
    /\ arg \in inputs
    /\ ret = <<>>
    /\ NoBatch

Init == InitWith(SeqsUpTo(TaskUniverse, MaxTasks), { <<>> })

\* load_completed_tasks(RESULTS_PATH) and the filter, then the loop set-up.
StartRun ==
    /\ pc = "start"
    /\ completed_tasks' = load_completed_tasks(ledger)
    /\ tasks' = FilterTasks(loaded, completed_tasks')
    /\ results' = <<>>
    /\ repos_processed' = {}
    /\ idx' = 0
    /\ ledger0' = ledger
    /\ pc' = "loop"
    /\ UNCHANGED << loaded, ledger, wc, base_status, test_status, run,
                    shortBefore, trace, causes, aux >>

\* for info in tasks: the next task, or the end of the loop.  base_status and
\* test_status are assigned before they are read in every iteration; they are
\* cleared here.
LoopNext ==
    /\ pc = "loop"
    /\ IF idx < Len(tasks)
       THEN /\ idx' = idx + 1
            /\ pc' = "clone"
       ELSE /\ idx' = idx
            /\ pc' = "done"
    /\ trace' = <<>>
    /\ base_status' = ""
    /\ test_status' = ""
    /\ UNCHANGED << loaded, ledger, wc, completed_tasks, tasks, results,
                    repos_processed, run, ledger0, shortBefore, causes, aux >>

\* repo_dir = ensure_repo_cloned(repo_slug)
Clone ==
    /\ pc = "clone"
    /\ \E code \in CmdExit :
         LET r == ensure_repo_cloned(wc[Info.repo], code)
             ev == Event("clone", "baseline", r.ok, IF r.ok THEN 0 ELSE 1)
         IN  /\ wc' = [wc EXCEPT ![Info.repo] = r.w]
             /\ trace' = Append(trace, ev)
             /\ IF ~r.ok
                THEN ShortCircuit(RecCloneFailed(Info), ev)
                ELSE pc' = "b_reset" /\ UNCHANGED << results, causes >>
    /\ UNCHANGED << loaded, ledger, completed_tasks, tasks, idx,
                    repos_processed, base_status, test_status, run, ledger0,
                    shortBefore, aux >>

\* A reset step of stage `stage`: on failure the record `record` ends the task.
ResetStep(at, stage, record, next) ==
    /\ pc = at
    /\ \E resetCode \in CmdExit, cleanCode \in CmdExit,
          left \in {wc[Info.repo].files, {}} :
         LET r == reset_to_base(wc[Info.repo], Info.base, resetCode, cleanCode, left)
             ev == Event("reset", stage, r.ok, IF r.ok THEN 0 ELSE 1)
         IN  /\ wc' = [wc EXCEPT ![Info.repo] = r.w]
             /\ trace' = Append(trace, ev)
             /\ IF ~r.ok
                THEN ShortCircuit(record, ev)
                ELSE pc' = next /\ UNCHANGED << results, causes >>
    /\ UNCHANGED << loaded, ledger, completed_tasks, tasks, idx,
                    repos_processed, base_status, test_status, run, ledger0,
                    shortBefore, aux >>

\* An apply_patch step.
ApplyStep(at, stage, patch_text, label, record, next) ==
    /\ pc = at
    /\ \E code \in CmdExit, partial \in BOOLEAN :
         LET r == apply_patch(wc[Info.repo], patch_text, label, code, partial)
             ev == Event("apply_" \o label, stage, r.ok, IF r.ok THEN 0 ELSE 1)
         IN  /\ wc' = [wc EXCEPT ![Info.repo] = r.w]
             /\ trace' = Append(trace, ev)
             /\ IF ~r.ok
                THEN ShortCircuit(record, ev)
                ELSE pc' = next /\ UNCHANGED << results, causes >>
    /\ UNCHANGED << loaded, ledger, completed_tasks, tasks, idx,
                    repos_processed, base_status, test_status, run, ledger0,
                    shortBefore, aux >>

\* A create_venv_and_install step.
VenvStep(at, stage, record, next) ==
    /\ pc = at
    /\ \E codes \in [1..5 -> CmdExit] :
         LET r == create_venv_and_install(wc[Info.repo], Stamp(stage), codes)
             ev == Event("venv", stage, r.ok, IF r.ok THEN 0 ELSE 1)
         IN  /\ wc' = [wc EXCEPT ![Info.repo] = r.w]
             /\ trace' = Append(trace, ev)
             /\ IF ~r.ok
                THEN ShortCircuit(record, ev)
                ELSE pc' = next /\ UNCHANGED << results, causes >>
    /\ UNCHANGED << loaded, ledger, completed_tasks, tasks, idx,
                    repos_processed, base_status, test_status, run, ledger0,
                    shortBefore, aux >>

\* ---- BASELINE
ResetBaseline ==
    ResetStep("b_reset", "baseline", RecResetFailedBaseline(Info), "b_venv")

VenvBaseline ==
    VenvStep("b_venv", "baseline", RecVenvFailedBaseline(Info), "b_test")

\* Mutant: a failing baseline test run ends the task.
TestsBaselineStopsOnFailMutant ==
    /\ pc = "b_test"
    /\ \E code \in ExitCodes :
         LET ev == Event("tests", "baseline", run_tests(code), code)
         IN  /\ base_status' = StatusOf(run_tests(code))
             /\ trace' = Append(trace, ev)
             /\ IF run_tests(code)
                THEN pc' = "t_reset" /\ UNCHANGED << results, causes >>
                ELSE /\ results' = Append(results,
                                 Record(Info, "FAIL", "SKIP", "SKIP", "baseline_failed"))
                     /\ causes' = Append(causes, ev)
                     /\ pc' = "loop"
    /\ UNCHANGED << loaded, ledger, wc, completed_tasks, tasks, idx,
                    repos_processed, test_status, run, ledger0, shortBefore, aux >>

\* base_ok, _ = run_tests(...); base_status = "PASS" if base_ok else "FAIL"
TestsBaseline ==
    /\ pc = "b_test"
    /\ \E code \in ExitCodes :
         /\ base_status' = StatusOf(run_tests(code))
         /\ trace' = Append(trace, Event("tests", "baseline", run_tests(code), code))
    /\ pc' = "t_reset"
    /\ UNCHANGED << loaded, ledger, wc, completed_tasks, tasks, idx, results,
                    repos_processed, test_status, run, ledger0, shortBefore,
                    causes, aux >>

\* ---- TEST PATCH
ResetTestPatch ==
    ResetStep("t_reset", "test_patch",
              RecResetFailedTestPatch(Info, base_status), "t_apply")

ApplyTestPatch ==
    ApplyStep("t_apply", "test_patch", Info.test_patch, "test_patch",
              RecApplyTestPatchFailed(Info, base_status), "t_venv")

\* Mutant: the test_patch stage reuses whatever environment is there.
VenvTestPatchSkippedMutant ==
    /\ pc = "t_venv"
    /\ pc' = "t_test"
    /\ UNCHANGED << loaded, ledger, wc, completed_tasks, tasks, idx, results,
                    repos_processed, base_status, test_status, run, ledger0,
                    shortBefore, trace, causes, aux >>

VenvTestPatch ==
    VenvStep("t_venv", "test_patch",
             RecVenvFailedTestPatch(Info, base_status), "t_test")

TestsTestPatch ==
    /\ pc = "t_test"
    /\ \E code \in ExitCodes :
         /\ test_status' = StatusOf(run_tests(code))
         /\ trace' = Append(trace, Event("tests", "test_patch", run_tests(code), code))
    /\ pc' = "f_reset"
    /\ UNCHANGED << loaded, ledger, wc, completed_tasks, tasks, idx, results,
                    repos_processed, base_status, run, ledger0, shortBefore,
                    causes, aux >>

\* ---- FIX PATCH
ResetFixPatch ==
    ResetStep("f_reset", "fix_patch",
              RecResetFailedFixPatch(Info, base_status, test_status),
              "f_apply_test")

ApplyTestPatchFixPhase ==
    ApplyStep("f_apply_test", "fix_patch", Info.test_patch, "test_patch",
              RecApplyTestPatchFailedFixPhase(Info, base_status, test_status),
              "f_apply_fix")

ApplyFixPatch ==
    ApplyStep("f_apply_fix", "fix_patch", Info.fix_patch, "fix_patch",
              RecApplyFixPatchFailed(Info, base_status, test_status), "f_venv")

VenvFixPatch ==
    VenvStep("f_venv", "fix_patch",
             RecVenvFailedFixPatch(Info, base_status, test_status), "f_test")

\* The file opened with mode "w": what was in it is lost.
AppendRowTruncatesMutant(lines, record) == << JsonLine(record) >>

\* with open(RESULTS_PATH, "a") as f: f.write(json.dumps(record) + "\n")
AppendRow(lines, record) == Append(lines, JsonLine(record))

\* The cap tested with > in place of >=.
CapReachedLateMutant(processed) == Cardinality(processed) > MAX_REPOS

\* if len(repos_processed) >= MAX_REPOS: break
CapReached(processed) == Cardinality(processed) >= MAX_REPOS

\* fix_ok, _ = run_tests(...); the "ok" record is appended to results and
\* written to the ledger file; repos_processed grows and the cap may break
\* out of the loop.
TestsFixPatch ==
    /\ pc = "f_test"
    /\ \E code \in ExitCodes :
         LET fix_status == StatusOf(run_tests(code))
             ev == Event("tests", "fix_patch", run_tests(code), code)
             rec == RecOk(Info, base_status, test_status, fix_status)
         IN  /\ trace' = Append(trace, ev)
             /\ results' = Append(results, rec)
             /\ causes' = Append(causes, ev)
             /\ ledger' = AppendRow(ledger, rec)
    /\ repos_processed' = repos_processed \cup {Info.repo}
    /\ pc' = IF CapReached(repos_processed') THEN "done" ELSE "loop"
    /\ UNCHANGED << loaded, wc, completed_tasks, tasks, idx, base_status,
                    test_status, run, ledger0, shortBefore, aux >>

\* The script is started again after a run has ended: a new process, with the
\* dataset, the ledger file and the working copies as the last run left them.
Restart ==
    /\ pc = "done"
    /\ run < MaxRuns
    /\ run' = run + 1
    /\ shortBefore' = shortBefore \cup
         { << results[i].repo, results[i].base_commit >> :
             i \in { j \in 1..Len(results) : results[j].note # "ok" } }
    /\ pc' = "start"
    /\ completed_tasks' = {}
    /\ tasks' = <<>>
    /\ idx' = 0
    /\ results' = <<>>
    /\ repos_processed' = {}
    /\ base_status' = ""
    /\ test_status' = ""
    /\ trace' = <<>>
    /\ causes' = <<>>
    /\ UNCHANGED << loaded, ledger, wc, ledger0, aux >>

\* One step of a run of main().
RunStep ==
    \/ StartRun
    \/ LoopNext
    \/ Clone
    \/ ResetBaseline
    \/ VenvBaseline
    \/ TestsBaseline
    \/ ResetTestPatch
    \/ ApplyTestPatch
    \/ VenvTestPatch
    \/ TestsTestPatch
    \/ ResetFixPatch
    \/ ApplyTestPatchFixPhase
    \/ ApplyFixPatch
    \/ VenvFixPatch
    \/ TestsFixPatch

Next ==
    \/ RunStep
    \/ Restart

Spec == Init /\ [][Next]_vars

\* ------------------------------------------------------- repository cap
\* One run over a dataset long enough for the cap to end the loop before the
\* last task: two revisions of one repository around a task of another one.
CapDatasets ==
    { ds \in [1..3 -> TaskUniverse] :
        /\ ds[1].repo = ds[3].repo /\ ds[1].repo # ds[2].repo
        /\ ds[1].test_patch = "" /\ ds[3].test_patch # "" }

InitCap == InitWith(CapDatasets, { <<>> })

SpecCap == InitCap /\ [][RunStep]_vars

\* ------------------------------------------------------------ abrupt stop
\* The positions inside the processing of one task.
StepPcs == { "clone", "b_reset", "b_venv", "b_test", "t_reset", "t_apply",
             "t_venv", "t_test", "f_reset", "f_apply_test", "f_apply_fix",
             "f_venv", "f_test" }

\* The stage a position belongs to; "loop" is between two tasks.
StoppedIn(p) ==
    CASE p \in { "clone", "b_reset", "b_venv", "b_test" } -> "baseline"
      [] p \in { "t_reset", "t_apply", "t_venv", "t_test" } -> "test_patch"
      [] p \in { "f_reset", "f_apply_test", "f_apply_fix", "f_venv", "f_test" }
            -> "fix_patch"
      [] OTHER -> "loop"

\* The process is terminated between two steps of main() and the script is
\* started again: everything in memory is lost, the ledger file and the
\* working copies stay as they are.
Kill ==
    /\ pc \in StepPcs \cup {"loop"}
    /\ run < MaxRuns
    /\ run' = run + 1
    /\ stopped' = [at |-> StoppedIn(pc),
                   pair |-> IF pc \in StepPcs
                            THEN << Info.repo, Info.base >>
                            ELSE << "none", "none" >>]
    /\ shortBefore' = shortBefore \cup
         { << results[i].repo, results[i].base_commit >> :
             i \in { j \in 1..Len(results) : results[j].note # "ok" } }
    /\ pc' = "start"
    /\ completed_tasks' = {}
    /\ tasks' = <<>>
    /\ idx' = 0
    /\ results' = <<>>
    /\ repos_processed' = {}
    /\ base_status' = ""
    /\ test_status' = ""
    /\ trace' = <<>>
    /\ causes' = <<>>
    /\ UNCHANGED << loaded, ledger, wc, ledger0, arg, ret, batchVars >>

NextCrash ==
    \/ Next
    \/ Kill

\* Datasets for the runs that may be terminated: tasks of distinct pairs.
CrashDatasets ==
    { ds \in SeqsUpTo(TaskUniverse, MaxTasks) :
        \A i, j \in 1..Len(ds) : i # j => ds[i].repo # ds[j].repo }

InitCrash == InitWith(CrashDatasets, { <<>> })

SpecCrash == InitCrash /\ [][NextCrash]_vars

\* ----------------------------------------------- reset_to_base on its own
\* Working copies as a run can leave them: any commit checked out, patches
\* applied fully or in part, patch and reject files, an environment.
DirtyCopies ==
    [cloned : { TRUE },
     head : { "HEAD", "c1", "c2" },
     applied : { <<>>, << "test_patch" >>, << "test_patch", "fix_patch" >>,
                 << "test_patch~rej" >> },
     files : SUBSET { "test_patch.patch", "fix_patch.patch", "rej" },
     venv : { NoVenv,
              [state |-> "ok", builtAt |-> << 1, 1, "fix_patch" >>,
               tree |-> << "c1", << "test_patch" >> >>],
              [state |-> "broken", builtAt |-> << 1, 1, "baseline" >>,
               tree |-> << "c2", <<>> >>] }]

ResetInputs == [w : DirtyCopies, rev : { "c1", "c2" }]

\* reset_to_base(repo_dir, base_commit), called up to twice in succession on
\* the working copy of arg; each call works on what the call before left.
ResetCall ==
    /\ arg \in ResetInputs
    /\ Len(ret) < 2
    /\ LET cur == IF ret = <<>> THEN arg.w ELSE ret[Len(ret)].w
       IN  \E resetCode \in CmdExit, cleanCode \in CmdExit,
              left \in { cur.files, {} } :
             ret' = Append(ret, reset_to_base(cur, arg.rev, resetCode,
                                              cleanCode, left))
    /\ UNCHANGED << mainVars, stopped, arg, batchVars >>

InitReset == InitWith({ <<>> }, ResetInputs)

SpecReset == InitReset /\ [][ResetCall]_vars

\* ------------------------------------- create_venv_and_install on its own
\* A working copy and the exit statuses of the five commands: rm -rf .venv,
\* python3 -m venv, pip install -U pip, pip install -e ., the test runner
\* install.
VenvInputs == [w : DirtyCopies, codes : [1..5 -> CmdExit]]

\* create_venv_and_install(repo_dir) called on the working copy of arg.
VenvCall ==
    /\ arg \in VenvInputs
    /\ ret = <<>>
    /\ ret' = << create_venv_and_install(arg.w, << 1, 1, "baseline" >>, arg.codes) >>
    /\ UNCHANGED << mainVars, stopped, arg, batchVars >>

InitVenv == InitWith({ <<>> }, VenvInputs)

SpecVenv == InitVenv /\ [][VenvCall]_vars

\* ------------------------------------------- the ledger readers on their own
\* Rows as main() writes them.
LedgerRows ==
    { Record([repo |-> "o/a", base |-> "c1"], "PASS", "FAIL", "PASS", "ok"),
      Record([repo |-> "o/a", base |-> "c2"], "PASS", "PASS", "FAIL", "ok"),
      Record([repo |-> "o/b", base |-> "c1"], "FAIL", "FAIL", "PASS", "ok") }

\* Lines a ledger file can hold: a row, an empty line, a JSON object without
\* the keys of a row, and text that is not JSON (a partial line).
LedgerLines ==
    { JsonLine(row) : row \in LedgerRows } \cup
    { [kind |-> k, row |-> [note |-> "none"]] : k \in { "blank", "nokeys", "corrupt" } }

LedgerFiles == SeqsUpTo(LedgerLines, MaxLines)

\* load_successful_instances, from line i on.  json.loads is not inside a
\* try: text that is not JSON raises out of the function.  A JSON object
\* without fix_patch, repo or base_commit is passed over by the get calls.
RECURSIVE SuccessfulFrom(_, _, _)
SuccessfulFrom(lines, i, successful) ==
    IF i > Len(lines) THEN [raised |-> FALSE, pairs |-> successful]
    ELSE IF lines[i].kind = "blank" THEN SuccessfulFrom(lines, i + 1, successful)
    ELSE IF lines[i].kind = "corrupt" THEN [raised |-> TRUE, pairs |-> {}]
    ELSE IF lines[i].kind = "nokeys" THEN SuccessfulFrom(lines, i + 1, successful)
    ELSE IF lines[i].row.fix_patch = "PASS"
         THEN SuccessfulFrom(lines, i + 1,
                             successful \cup { << lines[i].row.repo,
                                                  lines[i].row.base_commit >> })
         ELSE SuccessfulFrom(lines, i + 1, successful)

\* load_successful_instances(results_file) of a file that exists.
load_successful_instances(lines) == SuccessfulFrom(lines, 1, {})

\* load_completed_tasks(path) called on the file of arg.
LoadCompletedCall ==
    /\ arg \in LedgerFiles
    /\ \A k \in 1..Len(ret) : ret[k].fn # "load_completed_tasks"
    /\ ret' = Append(ret, [fn |-> "load_completed_tasks",
                           out |-> [raised |-> FALSE,
                                    pairs |-> load_completed_tasks(arg)]])
    /\ UNCHANGED << mainVars, stopped, arg, batchVars >>

\* load_successful_instances(results_file) called on the file of arg.
LoadSuccessfulCall ==
    /\ arg \in LedgerFiles
    /\ \A k \in 1..Len(ret) : ret[k].fn # "load_successful_instances"
    /\ ret' = Append(ret, [fn |-> "load_successful_instances",
                           out |-> load_successful_instances(arg)])
    /\ UNCHANGED << mainVars, stopped, arg, batchVars >>

NextReaders ==
    \/ LoadCompletedCall
    \/ LoadSuccessfulCall

InitReaders == InitWith({ <<>> }, LedgerFiles)

SpecReaders == InitReaders /\ [][NextReaders]_vars

\* ------------------------------------------------ generate_patch on its own
\* A model response is a text, held as its lines.  The lines that matter to
\* generate_patch: a line that starts with a fence, a line that has a fence
\* inside it, a line with the diff header, and lines with neither.
\* The three backquotes of a fence are written ''' in the strings here.
FenceLines == { "'''", "'''diff" }

InlineFenceLines == { "use '''x''' here" }

HeaderLines == { "diff --git a/f b/f" }

ResponseLines ==
    FenceLines \cup InlineFenceLines \cup HeaderLines \cup { "+x", "Here is the patch:" }

\* "diff --git" in text
HasDiffHeader(text) == \E i \in 1..Len(text) : text[i] \in HeaderLines

\* the fence characters occur in text
HasFence(text) ==
    \E i \in 1..Len(text) : text[i] \in FenceLines \cup InlineFenceLines

\* The loop over the lines: a line that starts with a fence flips
\* in_code_block and is dropped, a line inside a block is collected.
RECURSIVE ExtractFrom(_, _, _, _)
ExtractFrom(text, i, in_code_block, extracted_lines) ==
    IF i > Len(text) THEN extracted_lines
    ELSE IF text[i] \in FenceLines
         THEN ExtractFrom(text, i + 1, ~in_code_block, extracted_lines)
         ELSE ExtractFrom(text, i + 1, in_code_block,
                          IF in_code_block
                          THEN Append(extracted_lines, text[i])
                          ELSE extracted_lines)

\* What the model call gives back: an exception, or a text (empty when the
\* model answered nothing).
Responses ==
    { [raises |-> TRUE, text |-> <<>>] } \cup
    [raises : { FALSE }, text : SeqsUpTo(ResponseLines, MaxResponseLines)]

\* The value of "return None".
None == [none |-> TRUE, text |-> <<>>]

\* generate_patch for the given answer of the model call.
generate_patch(response) ==
    IF response.raises THEN None
    ELSE IF response.text = <<>> THEN None
    ELSE IF ~HasDiffHeader(response.text) /\ HasFence(response.text)
         THEN LET extracted_lines == ExtractFrom(response.text, 1, FALSE, <<>>)
              IN  IF extracted_lines # <<>> /\ HasDiffHeader(extracted_lines)
                  THEN [none |-> FALSE, text |-> extracted_lines]
                  ELSE [none |-> FALSE, text |-> response.text]
         ELSE [none |-> FALSE, text |-> response.text]

\* generate_patch called with the model answering arg.
GeneratePatchCall ==
    /\ arg \in Responses
    /\ ret = <<>>
    /\ ret' = << [fn |-> "generate_patch", out |-> generate_patch(arg)] >>
    /\ UNCHANGED << mainVars, stopped, arg, batchVars >>

InitPatch == InitWith({ <<>> }, Responses)

SpecPatch == InitPatch /\ [][GeneratePatchCall]_vars

\* ------------------------------------------------------ the batch scripts
\* baseline.py, coder.py and documenter.py: one loop over the loaded tasks.
Scripts == { "baseline", "coder", "documenter" }

\* Tasks as load_oracle_tasks returns them (the fields the loop reads).
BatchTaskUniverse ==
    { [instance_id |-> "i1", repo |-> "o/a", base_commit |-> "c1"],
      [instance_id |-> "i2", repo |-> "o/a", base_commit |-> "c2"],
      [instance_id |-> "i3", repo |-> "o/b", base_commit |-> "c1"] }

\* Answers of the model call in a batch: an exception, nothing, prose, a bare
\* diff, a diff inside fences, and a fenced block without a diff header.
BatchResponses ==
    { [raises |-> TRUE, text |-> <<>>],
      [raises |-> FALSE, text |-> <<>>],
      [raises |-> FALSE, text |-> << "Here is the patch:" >>],
      [raises |-> FALSE, text |-> << "diff --git a/f b/f", "+x" >>],
      [raises |-> FALSE, text |-> << "'''diff", "diff --git a/f b/f", "+x", "'''" >>],
      [raises |-> FALSE, text |-> << "'''", "+x", "'''" >>] }

\* What the surroundings do while one task is handled: the state of the
\* coder's input document, whether the prompt file can be written, the
\* model's answer, whether the output file can be written.
Envs(s) ==
    [doc : IF s = "coder" THEN { "ok", "missing", "empty" } ELSE { "ok" },
     prompt_ok : BOOLEAN,
     response : BatchResponses,
     save_ok : BOOLEAN]

\* generate_doc for the given answer of the model call.
generate_doc(response) ==
    IF response.raises THEN None
    ELSE IF response.text = <<>> THEN None
    ELSE [none |-> FALSE, text |-> response.text]

\* output_subdir / f"{instance_id}.patch" (or .txt): the file save_patch or
\* save_doc writes for a task.
OutputFile(task) == task.repo \o "/" \o task.instance_id

\* The model was not called.
NoResponse == [raises |-> FALSE, text |-> <<>>]

\* An exception raised inside the try block before or after the model call.
Raised(msg, calls, response) ==
    [exc |-> msg, generated |-> FALSE, path |-> "None", error |-> "None",
     wrote |-> {}, calls |-> calls, response |-> response]

\* The body of the try block for one task: exc is the exception that leaves
\* it ("None" when it ends normally), the other fields what it did.
TryBody(s, task, env) ==
    IF s = "coder" /\ env.doc = "missing"
    THEN Raised("Document not found", 0, NoResponse)
    ELSE IF s = "coder" /\ env.doc = "empty"
    THEN Raised("Empty document", 0, NoResponse)
    ELSE IF ~env.prompt_ok
    THEN Raised("prompt file not written", 0, NoResponse)
    ELSE LET out == IF s = "documenter" THEN generate_doc(env.response)
                    ELSE generate_patch(env.response)
         IN  IF out.none
             THEN [exc |-> "None", generated |-> FALSE, path |-> "None",
                   error |-> IF s = "documenter"
                             THEN "Failed to generate document"
                             ELSE "Failed to generate patch",
                   wrote |-> {}, calls |-> 1, response |-> env.response]
             ELSE IF ~env.save_ok
             THEN Raised("output file not written", 1, env.response)
             ELSE [exc |-> "None", generated |-> TRUE,
                   path |-> OutputFile(task), error |-> "None",
                   wrote |-> { OutputFile(task) }, calls |-> 1,
                   response |-> env.response]

\* An except clause that leaves the error field as the try block left it.
ResultRowSilentExceptMutant(s, task, o) ==
    IF s = "documenter"
    THEN [instance_id |-> task.instance_id, repo |-> task.repo,
          doc_generated |-> o.generated, doc_path |-> o.path,
          error |-> o.error]
    ELSE [instance_id |-> task.instance_id, repo |-> task.repo,
          patch_generated |-> o.generated, patch_path |-> o.path,
          error |-> o.error]

\* The result dict after the try statement; the except clause puts str(e)
\* into error.
ResultRow(s, task, o) ==
    LET error == IF o.exc # "None" THEN o.exc ELSE o.error
    IN  IF s = "documenter"
        THEN [instance_id |-> task.instance_id, repo |-> task.repo,
              doc_generated |-> o.generated, doc_path |-> o.path,
              error |-> error]
        ELSE [instance_id |-> task.instance_id, repo |-> task.repo,
              patch_generated |-> o.generated, patch_path |-> o.path,
              error |-> error]

\* if not tasks: return; otherwise the loop is entered.
BatchStart ==
    /\ b_pc = "start"
    /\ b_pc' = IF b_tasks = <<>> THEN "done" ELSE "loop"
    /\ UNCHANGED << mainVars, stopped, arg, ret, script, b_tasks, b_i,
                    b_results, b_files, b_hist, b_run >>

\* The except clause taken out: an exception that leaves the try block ends
\* the script.
TaskStepNoExceptMutant(s) ==
    /\ script = s
    /\ b_pc = "loop"
    /\ b_i < Len(b_tasks)
    /\ \E env \in Envs(s) :
         LET task == b_tasks[b_i + 1]
             o == TryBody(s, task, env)
         IN  IF o.exc # "None"
             THEN /\ b_pc' = "crashed"
                  /\ UNCHANGED << b_i, b_results, b_files, b_hist >>
             ELSE /\ b_results' = Append(b_results, ResultRow(s, task, o))
                  /\ b_files' = b_files \cup o.wrote
                  /\ b_hist' = Append(b_hist, [exc |-> o.exc, calls |-> o.calls,
                                               response |-> o.response,
                                               wrote |-> o.wrote])
                  /\ b_i' = b_i + 1
                  /\ b_pc' = b_pc
    /\ UNCHANGED << mainVars, stopped, arg, ret, script, b_tasks, b_run >>

\* One iteration of the loop of script s: the try block, the except clause,
\* results.append(result) and the line appended to RESULTS_FILE.
TaskStep(s) ==
    /\ script = s
    /\ b_pc = "loop"
    /\ b_i < Len(b_tasks)
    /\ \E env \in Envs(s) :
         LET task == b_tasks[b_i + 1]
             o == TryBody(s, task, env)
         IN  /\ b_results' = Append(b_results, ResultRow(s, task, o))
             /\ b_files' = b_files \cup o.wrote
             /\ b_hist' = Append(b_hist, [exc |-> o.exc, calls |-> o.calls,
                                          response |-> o.response,
                                          wrote |-> o.wrote])
    /\ b_i' = b_i + 1
    /\ UNCHANGED << mainVars, stopped, arg, ret, script, b_pc, b_tasks,
                    b_run >>

BaselineTask == TaskStep("baseline")

CoderTask == TaskStep("coder")

DocumenterTask == TaskStep("documenter")

\* The loop has handled the last task: the summary is printed.
BatchEnd ==
    /\ b_pc = "loop"
    /\ b_i = Len(b_tasks)
    /\ b_pc' = "done"
    /\ UNCHANGED << mainVars, stopped, arg, ret, script, b_tasks, b_i,
                    b_results, b_files, b_hist, b_run >>

NextBatch ==
    \/ BatchStart
    \/ BaselineTask
    \/ CoderTask
    \/ DocumenterTask
    \/ BatchEnd

\* A batch script after its tasks were loaded.
InitBatch ==
    /\ MainInit({ <<>> })
    /\ arg = <<>>
    /\ ret = <<>>
    /\ script \in Scripts
    /\ b_pc = "start"
    /\ b_tasks \in SeqsUpTo(BatchTaskUniverse, MaxBatchTasks)
    /\ b_i = 0
    /\ b_results = <<>>
    /\ b_files = {}
    /\ b_hist = <<>>
    /\ b_run = [n |-> 1, rows0 |-> 0]

SpecBatch == InitBatch /\ [][NextBatch]_vars

\* The script is started again after it has ended: a new process over the
\* same tasks; RESULTS_FILE is opened in mode "a", so its rows are kept, and
\* so are the saved files.
BatchRestart ==
    /\ b_pc = "done"
    /\ b_run.n < MaxBatchRuns
    /\ b_run' = [n |-> b_run.n + 1, rows0 |-> Len(b_results)]
    /\ b_pc' = "start"
    /\ b_i' = 0
    /\ UNCHANGED << mainVars, stopped, arg, ret, script, b_tasks, b_results,
                    b_files, b_hist >>

NextBatchRuns == NextBatch \/ BatchRestart

SpecBatchRuns == InitBatch /\ [][NextBatchRuns]_vars

\* ------------------------------------------------------- loading the tasks
\* The oracle_lite.json files of a dataset, in the order the directories are
\* listed.  A field that is absent, null or empty is "": features.get gives
\* None or "" and both fail the test "not x".  A file that json.load rejects
\* has parses = FALSE.
MetaFiles ==
    [parses : { TRUE }, instance_id : { "", "i1" }, repo : { "", "o/a" },
     base_commit : { "", "c1", "c2" }, test_patch : { "TP" }, patch : { "FP" }]
    \cup
    { [parses |-> FALSE, instance_id |-> "", repo |-> "", base_commit |-> "",
       test_patch |-> "", patch |-> ""] }

Datasets == SeqsUpTo(MetaFiles, MaxFiles)

\* The loading loop of main() of run_all_oracle.py: a file that does not
\* parse is passed over by the except clause, a file without repo or
\* base_commit by the continue; every other file gives one task.
LoadMainTasks(files) ==
    LET kept == SelectSeq(files, LAMBDA f :
                    f.parses /\ f.repo # "" /\ f.base_commit # "")
    IN  [k \in 1..Len(kept) |->
            [repo |-> kept[k].repo, base |-> kept[k].base_commit,
             test_patch |-> kept[k].test_patch, fix_patch |-> kept[k].patch]]

\* "return None" of load_successful_instances: no filter.
NoFilter == [raised |-> FALSE, present |-> FALSE, pairs |-> {}]

\* load_successful_instances(ORACLE_RESULTS_FILE) for a file that may not
\* exist.
SuccessFilter(file) ==
    IF ~file.exists THEN NoFilter
    ELSE LET r == load_successful_instances(file.lines)
         IN  [raised |-> r.raised, present |-> ~r.raised, pairs |-> r.pairs]

\* The filter tested by its truth value: an empty set counts as no filter.
LoadOracleTruthinessMutant(files, successful_filter) ==
    LET kept == SelectSeq(files, LAMBDA f :
                    /\ f.parses
                    /\ f.repo # "" /\ f.base_commit # "" /\ f.instance_id # ""
                    /\ successful_filter.pairs # {} =>
                          << f.repo, f.base_commit >> \in successful_filter.pairs)
    IN  [k \in 1..Len(kept) |->
            [instance_id |-> kept[k].instance_id, repo |-> kept[k].repo,
             base_commit |-> kept[k].base_commit]]

\* instance_id not asked for.
LoadOracleWithoutIdMutant(files, successful_filter) ==
    LET kept == SelectSeq(files, LAMBDA f :
                    /\ f.parses
                    /\ f.repo # "" /\ f.base_commit # ""
                    /\ successful_filter.present =>
                          << f.repo, f.base_commit >> \in successful_filter.pairs)
    IN  [k \in 1..Len(kept) |->
            [instance_id |-> kept[k].instance_id, repo |-> kept[k].repo,
             base_commit |-> kept[k].base_commit]]

\* The filter left out.
LoadOracleUnfilteredMutant(files, successful_filter) ==
    LET kept == SelectSeq(files, LAMBDA f :
                    /\ f.parses
                    /\ f.repo # "" /\ f.base_commit # "" /\ f.instance_id # "")
    IN  [k \in 1..Len(kept) |->
            [instance_id |-> kept[k].instance_id, repo |-> kept[k].repo,
             base_commit |-> kept[k].base_commit]]

\* load_oracle_tasks(ORACLE_ROOT, successful_filter): a file is passed over
\* when it does not parse, when repo, base_commit or instance_id is missing,
\* and, with a filter that is not None, when its pair is not in the filter.
load_oracle_tasks(files, successful_filter) ==
    LET kept == SelectSeq(files, LAMBDA f :
                    /\ f.parses
                    /\ f.repo # "" /\ f.base_commit # "" /\ f.instance_id # ""
                    /\ successful_filter.present =>
                          << f.repo, f.base_commit >> \in successful_filter.pairs)
    IN  [k \in 1..Len(kept) |->
            [instance_id |-> kept[k].instance_id, repo |-> kept[k].repo,
             base_commit |-> kept[k].base_commit]]

\* The ledger file a batch script finds: missing, or with some lines.
FilterLedgers ==
    { [exists |-> FALSE, lines |-> <<>>] } \cup [exists : { TRUE }, lines : LedgerFiles]

LoadInputs == [files : Datasets, ledger : FilterLedgers]

\* The loading loop of main() of run_all_oracle.py on the dataset of arg.
MainLoadCall ==
    /\ arg \in LoadInputs
    /\ ret = <<>>
    /\ ret' = << [fn |-> "main", out |-> LoadMainTasks(arg.files)] >>
    /\ UNCHANGED << mainVars, stopped, arg, batchVars >>

\* The start of main() of a batch script: the success filter is read from
\* the ledger, then the tasks are loaded.  An exception of the reader is
\* caught nowhere and ends the script.
BatchLoad ==
    /\ arg \in LoadInputs
    /\ b_pc = "load"
    /\ LET successful_filter == SuccessFilter(arg.ledger)
       IN  IF successful_filter.raised
           THEN b_pc' = "crashed" /\ b_tasks' = b_tasks
           ELSE /\ b_tasks' = load_oracle_tasks(arg.files, successful_filter)
                /\ b_pc' = "start"
    /\ UNCHANGED << mainVars, stopped, arg, ret, script, b_i, b_results,
                    b_files, b_hist, b_run >>

NextLoad ==
    \/ MainLoadCall
    \/ BatchLoad
    \/ BatchStart

InitLoad ==
    /\ MainInit({ <<>> })
    /\ arg \in LoadInputs
    /\ ret = <<>>
    /\ script \in Scripts
    /\ b_pc = "load"
    /\ b_tasks = <<>>
    /\ b_i = 0
    /\ b_results = <<>>
    /\ b_files = {}
    /\ b_hist = <<>>
    /\ b_run = [n |-> 1, rows0 |-> 0]

SpecLoad == InitLoad /\ [][NextLoad]_vars

\* ================================================================== claims
StageVals(r) == << r.baseline, r.test_patch, r.fix_patch >>

PairOfTask(t) == << t.repo, t.base >>

PairOfRow(r) == << r.repo, r.base_commit >>

\* The rows of the well-formed lines of a ledger.
RowsOf(lines) == { lines[i].row : i \in { j \in 1..Len(lines) : lines[j].kind = "json" } }

\* Every record the orchestrator has produced: in memory or written out.
Produced == { results[i] : i \in 1..Len(results) } \cup RowsOf(ledger)

TestPcs == { "b_test", "t_test", "f_test" }

\* C1: in every result record, an ERROR stage is followed only by SKIP stages
\* and a SKIP stage is preceded by an ERROR stage.
C1_ShortCircuitMonotone ==
    \A r \in Produced :
        \A j \in 1..3 :
            /\ StageVals(r)[j] = "ERROR" =>
                   \A k \in (j + 1)..3 : StageVals(r)[k] = "SKIP"
            /\ StageVals(r)[j] = "SKIP" =>
                   \E k \in 1..(j - 1) : StageVals(r)[k] = "ERROR"

\* C1 witness: a record whose test_patch stage is ERROR after a baseline that
\* ran, with fix_patch SKIP.
C1_Witness ==
    \E r \in Produced :
        /\ r.baseline \in {"PASS", "FAIL"}
        /\ r.test_patch = "ERROR"
        /\ r.fix_patch = "SKIP"

\* C2 (as claimed): every task the loop has finished with, short-circuited or
\* not, has added exactly one row to the ledger file, in task order, by the
\* time the loop moves on.
C2_OneRowPerTask ==
    pc \in {"loop", "done"} =>
        /\ Len(ledger) = Len(ledger0) + Len(results)
        /\ \A i \in 1..Len(results) :
               /\ Len(ledger0) + i <= Len(ledger)
               /\ ledger[Len(ledger0) + i] = JsonLine(results[i])

\* C3 (as claimed): a task whose clone failed has a ledger row with baseline
\* ERROR, test_patch SKIP, fix_patch SKIP and note "clone_failed".
C3_CloneFailureRow ==
    \A i \in 1..Len(results) :
        (causes[i].op = "clone" /\ ~causes[i].ok) =>
            \E row \in RowsOf(ledger) :
                /\ PairOfRow(row) = PairOfRow(results[i])
                /\ row.baseline = "ERROR"
                /\ row.test_patch = "SKIP"
                /\ row.fix_patch = "SKIP"
                /\ row.note = "clone_failed"

\* The pairs C named by the rows of the ledger the current run started with.
CompletedAtStart == { PairOfRow(row) : row \in RowsOf(ledger0) }

\* C4: once a run has read the ledger, its queue is exactly the loaded tasks
\* whose pair is not in C, in their loaded order; the tasks it processes are
\* the tasks of that queue, in order, all of them when the loop ends without
\* the repository cap; and no row it appends names a pair in C.
C4_ResumeCorrectness ==
    pc # "start" =>
        /\ tasks = SelectSeq(loaded, LAMBDA t : PairOfTask(t) \notin CompletedAtStart)
        /\ Len(results) <= Len(tasks)
        /\ \A i \in 1..Len(results) : PairOfRow(results[i]) = PairOfTask(tasks[i])
        /\ (pc = "done" /\ Cardinality(repos_processed) < MAX_REPOS) =>
               Len(results) = Len(tasks)
        /\ \A k \in (Len(ledger0) + 1)..Len(ledger) :
               PairOfRow(ledger[k].row) \notin CompletedAtStart

\* C4 witness: a run that started with a non-empty ledger has left out a
\* loaded task and has processed and written a row for another one.
C4_Witness ==
    /\ pc = "done"
    /\ ledger0 # <<>>
    /\ Len(tasks) < Len(loaded)
    /\ Len(results) > 0
    /\ Len(ledger) > Len(ledger0)

\* C5 (as claimed): a task that short-circuited in an earlier run is not taken
\* up again by a later run.
C5_ShortCircuitedNotRetried ==
    pc = "clone" => PairOfTask(Info) \notin shortBefore

\* C6: after a baseline or test_patch test run, passing or failing, the next
\* step is the next stage's reset and no record is appended; a record with an
\* ERROR stage is appended only by a failed clone, reset, apply or environment
\* step, never by a test run.
C6_FailingTestNeverShortCircuits ==
    [][ /\ pc = "b_test" => (pc' = "t_reset" /\ results' = results)
        /\ pc = "t_test" => (pc' = "f_reset" /\ results' = results)
        /\ (Len(results') = Len(results) + 1 /\ results'[Len(results')].note # "ok") =>
               /\ causes'[Len(causes')].op \in
                      {"clone", "reset", "apply_test_patch", "apply_fix_patch", "venv"}
               /\ ~causes'[Len(causes')].ok
               /\ pc \notin TestPcs
      ]_vars

\* C6 witness: the baseline tests failed and the test_patch stage's reset ran.
C6_Witness ==
    \E i \in 1..Len(trace) :
        /\ trace[i].op = "tests" /\ trace[i].stage = "baseline" /\ ~trace[i].ok
        /\ \E j \in (i + 1)..Len(trace) :
               trace[j].op = "reset" /\ trace[j].stage = "test_patch"

\* The stage whose test run is next.
StageOfPc ==
    CASE pc = "b_test" -> "baseline"
      [] pc = "t_test" -> "test_patch"
      [] pc = "f_test" -> "fix_patch"
      [] OTHER -> "none"

\* The patches a stage tests, in order, leaving out the empty ones.
PatchIf(text, label) == IF text = "" THEN <<>> ELSE << label >>

StagePatches(t, stage) ==
    CASE stage = "baseline" -> <<>>
      [] stage = "test_patch" -> PatchIf(t.test_patch, "test_patch")
      [] stage = "fix_patch" ->
             PatchIf(t.test_patch, "test_patch") \o PatchIf(t.fix_patch, "fix_patch")

\* C7: when a test run is about to start, the working copy is the task's base
\* revision with exactly the stage's patches applied in order, and holds no
\* untracked file other than the patch files of this stage; and the first
\* step of every stage is reset_to_base.
C7_StageIsolation ==
    /\ pc \in TestPcs =>
           LET w == wc[Info.repo]
               ps == StagePatches(Info, StageOfPc)
           IN  /\ w.cloned
               /\ w.head = Info.base
               /\ w.applied = ps
               /\ w.files = { ps[i] \o ".patch" : i \in 1..Len(ps) }
    /\ \A i \in 1..Len(trace) :
           (/\ trace[i].op # "clone"
            /\ (i = 1 \/ trace[i - 1].stage # trace[i].stage \/ trace[i - 1].op = "clone"))
           => (trace[i].op = "reset")

\* C7 witness: the second task of a run works on the repository of the first
\* task at another revision, the first task ended in a failed apply that left
\* reject files, and the second task's fix_patch test run is about to start.
C7_Witness ==
    /\ pc = "f_test"
    /\ idx = 2
    /\ tasks[1].repo = tasks[2].repo
    /\ tasks[1].base # tasks[2].base
    /\ results[1].note = "apply_fix_patch_failed"

\* C8: when a test run is about to start, the environment is one built in this
\* stage of this task of this run, from the tree the tests run on; the build
\* is the last step before the test run and follows the stage's reset and
\* patch applications.
C8_FreshEnvironment ==
    pc \in TestPcs =>
        LET w == wc[Info.repo]
            n == Len(trace)
        IN  /\ w.venv.state = "ok"
            /\ w.venv.builtAt = Stamp(StageOfPc)
            /\ w.venv.tree = Tree(w)
            /\ n > 0
            /\ trace[n].op = "venv" /\ trace[n].stage = StageOfPc /\ trace[n].ok
            /\ \A i \in 1..(n - 1) :
                   trace[i].stage = StageOfPc =>
                       trace[i].op \in {"clone", "reset", "apply_test_patch",
                                        "apply_fix_patch"}

\* C8 witness: the fix_patch test run of the second task of a second run is
\* about to start, on a repository an earlier task built environments in.
C8_Witness ==
    /\ pc = "f_test"
    /\ run = 2
    /\ \E row \in RowsOf(ledger0) : row.repo = Info.repo
    /\ Info.test_patch # ""
    /\ Info.fix_patch # ""

\* The status the current task's record carries, or will carry, for a stage
\* whose test run is in the trace.
StatusNow(stage) ==
    CASE stage = "baseline" -> base_status
      [] stage = "test_patch" -> test_status
      [] stage = "fix_patch" -> results[Len(results)].fix_patch

\* C9: a stage's outcome is PASS exactly when the exit status of its test run
\* is zero and FAIL exactly when it is not; no step is invoked twice in the
\* same stage of a task, and no step follows a failed clone, reset, apply or
\* environment step.
C9_OutcomeFromSingleRun ==
    /\ \A i \in 1..Len(trace) :
           trace[i].op = "tests" =>
               /\ (StatusNow(trace[i].stage) = "PASS") <=> (trace[i].code = 0)
               /\ (StatusNow(trace[i].stage) = "FAIL") <=> (trace[i].code # 0)
    /\ \A i, j \in 1..Len(trace) :
           (i # j) => (<< trace[i].op, trace[i].stage >> # << trace[j].op, trace[j].stage >>)
    /\ \A i \in 1..(Len(trace) - 1) : trace[i].ok \/ trace[i].op = "tests"
    /\ (pc \in {"loop", "done"} /\ trace # <<>> /\ results[Len(results)].note = "ok") =>
           /\ results[Len(results)].baseline = base_status
           /\ results[Len(results)].test_patch = test_status

\* C9 witness: a task finished all three stages with test exit statuses 0, 2
\* and 1.
C9_Witness ==
    /\ pc \in {"loop", "done"}
    /\ Len(trace) > 0
    /\ \E i, j, k \in 1..Len(trace) :
           /\ trace[i].op = "tests" /\ trace[i].stage = "baseline" /\ trace[i].code = 0
           /\ trace[j].op = "tests" /\ trace[j].stage = "test_patch" /\ trace[j].code = 2
           /\ trace[k].op = "tests" /\ trace[k].stage = "fix_patch" /\ trace[k].code = 1

\* The stage field of a record.
StageField(r, stage) ==
    CASE stage = "baseline" -> r.baseline
      [] stage = "test_patch" -> r.test_patch
      [] stage = "fix_patch" -> r.fix_patch

\* C10: a record ended by a failed step has ERROR in the stage of that step;
\* two records with the same note were ended by the same step of the same
\* stage; and the note is "ok" exactly when no stage is ERROR or SKIP.
C10_DistinguishingNotes ==
    /\ \A i \in 1..Len(results) :
           /\ (results[i].note = "ok") <=>
                  (\A j \in 1..3 : StageVals(results[i])[j] \notin {"ERROR", "SKIP"})
           /\ (~causes[i].ok /\ causes[i].op # "tests") =>
                  /\ StageField(results[i], causes[i].stage) = "ERROR"
                  /\ results[i].note # "ok"
           /\ (results[i].note # "ok") => (~causes[i].ok /\ causes[i].op # "tests")
    /\ \A i, j \in 1..Len(results) :
           (results[i].note = results[j].note) =>
               (causes[i].op = causes[j].op /\ causes[i].stage = causes[j].stage)

\* C10 witness: one run holds a record ended by the baseline environment build
\* and one ended by the test_patch environment build.
C10_Witness ==
    \E i, j \in 1..Len(results) :
        /\ causes[i].op = "venv" /\ causes[i].stage = "baseline" /\ ~causes[i].ok
        /\ causes[j].op = "venv" /\ causes[j].stage = "test_patch" /\ ~causes[j].ok

\* Whether sequence s is the beginning of sequence t.
IsPrefix(s, t) == Len(s) <= Len(t) /\ SubSeq(t, 1, Len(s)) = s

\* C11: across any sequence of runs the ledger only grows at its end: the
\* lines it holds at any time are the first lines it holds at every later
\* time, so no line is rewritten, reordered or removed.
C11_LedgerAppendOnly == [][IsPrefix(ledger, ledger')]_vars

\* A second run has appended a row behind the rows of the first run.
C11_Witness ==
    run = 2 /\ ledger0 # <<>> /\ Len(ledger) > Len(ledger0)
            /\ IsPrefix(ledger0, ledger)

\* The rows a run has appended to the ledger it started with.
AppendedRows == SubSeq(ledger, Len(ledger0) + 1, Len(ledger))

\* C12: with runs that may be terminated between any two steps, a run's queue
\* is re-derived from the ledger alone (a task with a row is left out, a task
\* without one is queued again), a queued task is started from the clone and
\* the BASELINE reset whatever stage it had reached before, and the rows a
\* run has appended are exactly the records of the tasks it finished: the
\* task in progress has no record and no row.
C12_AbruptStopSafety ==
    pc # "start" =>
        /\ tasks = SelectSeq(loaded, LAMBDA t : PairOfTask(t) \notin CompletedAtStart)
        /\ (pc \in StepPcs /\ Len(trace) >= 1) =>
               (trace[1].op = "clone" /\ trace[1].stage = "baseline")
        /\ (pc \in StepPcs /\ Len(trace) >= 2) =>
               (trace[2].op = "reset" /\ trace[2].stage = "baseline")
        /\ pc \in StepPcs => Len(results) = idx - 1
        /\ LET done == SelectSeq(results, LAMBDA r : r.note = "ok")
           IN  AppendedRows = [k \in 1..Len(done) |-> JsonLine(done[k])]

\* A run was terminated in the fix_patch stage of its second task; the next
\* run leaves out the task that has a row and is running the interrupted
\* task again, now at its baseline tests.
C12_Witness ==
    /\ run = 2
    /\ stopped.at = "fix_patch"
    /\ ledger0 # <<>>
    /\ Len(tasks) < Len(loaded)
    /\ pc = "b_test"
    /\ PairOfTask(Info) = stopped.pair
    /\ PairOfTask(Info) \notin CompletedAtStart

\* C13 (as claimed): when the repository cap ends the loop, every task the
\* run processed before the stop, short-circuited ones included, has its
\* record as a row of the ledger, and the rows the ledger had before are
\* still its first rows.
C13_CapStopKeepsAllRows ==
    (pc = "done" /\ Cardinality(repos_processed) >= MAX_REPOS) =>
        /\ \A i \in 1..Len(results) :
              \E k \in 1..Len(AppendedRows) : AppendedRows[k] = JsonLine(results[i])
        /\ IsPrefix(ledger0, ledger)

\* The patch text the apply_patch call at a position is given.
PatchAt(p) ==
    CASE p = "t_apply" -> Info.test_patch
      [] p = "f_apply_test" -> Info.test_patch
      [] p = "f_apply_fix" -> Info.fix_patch
      [] OTHER -> "none"

\* C14: an apply_patch call with an empty patch text succeeds whatever a git
\* command would have answered, and leaves every working copy, files
\* included, exactly as it was: the run moves on to the next step of the
\* stage, and when the call follows the reset directly the working copy is
\* still the pristine checkout of the base revision.
C14_EmptyPatchNoOp ==
    [][(pc \in { "t_apply", "f_apply_test", "f_apply_fix" } /\ PatchAt(pc) = "") =>
          /\ wc' = wc
          /\ pc' = CASE pc = "t_apply" -> "t_venv"
                     [] pc = "f_apply_test" -> "f_apply_fix"
                     [] pc = "f_apply_fix" -> "f_venv"
          /\ trace'[Len(trace')].ok
          /\ results' = results
          /\ pc \in { "t_apply", "f_apply_test" } =>
                /\ Tree(wc'[Info.repo]) = << Info.base, <<>> >>
                /\ wc'[Info.repo].files = {}]_vars

\* The fix_patch stage of a task without a fix patch has passed its apply
\* step for the fix patch: nothing was written and the test patch is the one
\* change on top of the base revision.
C14_Witness ==
    /\ pc = "f_venv"
    /\ Info.fix_patch = ""
    /\ Info.test_patch # ""
    /\ trace[Len(trace)].op = "apply_fix_patch" /\ trace[Len(trace)].ok
    /\ wc[Info.repo].files = { "test_patch.patch" }
    /\ Tree(wc[Info.repo]) = << Info.base, << "test_patch" >> >>

\* The pristine checkout of a revision: no change on top of it, no untracked
\* or ignored file, no environment.
Pristine(rev) ==
    [cloned |-> TRUE, head |-> rev, applied |-> <<>>, files |-> {},
     venv |-> NoVenv]

\* C15: for any working copy and revision, a reset that succeeds leaves the
\* pristine checkout of the revision, and a second reset called right after
\* it leaves that same state.
C15_IdempotentReset ==
    (arg \in ResetInputs /\ Len(ret) >= 1 /\ ret[1].ok) =>
        /\ ret[1].w = Pristine(arg.rev)
        /\ Len(ret) = 2 => ret[2].w = ret[1].w

\* Two resets in succession have succeeded on a working copy that was at
\* another commit with patches applied, files left over and an environment.
C15_Witness ==
    /\ arg \in ResetInputs
    /\ Len(ret) = 2 /\ ret[1].ok /\ ret[2].ok
    /\ arg.w.head # arg.rev
    /\ arg.w.applied # <<>>
    /\ arg.w.files # {}
    /\ arg.w.venv # NoVenv

\* The pairs of the rows of a file that satisfy a condition.
PairsWhere(lines, Cond(_)) ==
    { PairOfRow(row) : row \in { r \in RowsOf(lines) : Cond(r) } }

\* C16 (as claimed): the resume reader parses each line on its own: the
\* completed set is the set of pairs of all well-formed rows of the file,
\* whatever corrupt or partial lines stand before or after them.
C16_EachLineParsedOnItsOwn ==
    \A k \in 1..Len(ret) :
        ret[k].fn = "load_completed_tasks" =>
            ret[k].out.pairs = PairsWhere(arg, LAMBDA r : TRUE)

\* C17 (as claimed): load_successful_instances passes over a corrupt line:
\* it ends without an exception and returns the pairs of all well-formed rows
\* whose fix_patch is PASS.
C17_SuccessReaderSkipsCorruptLines ==
    \A k \in 1..Len(ret) :
        ret[k].fn = "load_successful_instances" =>
            /\ ~ret[k].out.raised
            /\ ret[k].out.pairs = PairsWhere(arg, LAMBDA r : r.fix_patch = "PASS")

\* Every fence that opens a block in the text has its closing fence.
FencesClosed(text) ==
    Cardinality({ i \in 1..Len(text) : text[i] \in FenceLines }) % 2 = 0

\* C18 (as claimed): when the response has a diff header inside a fenced
\* block, generate_patch returns the lines inside the fences, without the
\* fence lines.
C18_FencedDiffExtracted ==
    (ret # <<>> /\ ~arg.raises /\ FencesClosed(arg.text)
       /\ HasDiffHeader(ExtractFrom(arg.text, 1, FALSE, <<>>))) =>
        ret[1].out = [none |-> FALSE,
                      text |-> ExtractFrom(arg.text, 1, FALSE, <<>>)]

\* The rows of the patch producers whose task got a non-empty answer without
\* a diff header from the model.
NoHeaderAnswers ==
    { k \in 1..Len(b_hist) :
        /\ b_hist[k].calls >= 1
        /\ ~b_hist[k].response.raises
        /\ b_hist[k].response.text # <<>>
        /\ ~HasDiffHeader(b_hist[k].response.text) }

\* C19 (as claimed): in the patch producers, a non-empty answer without a
\* diff header is rejected: no patch file is written for the task, its row
\* has patch_generated false and an error, and the model was called once.
C19_NoHeaderRejected ==
    script \in { "baseline", "coder" } =>
        \A k \in NoHeaderAnswers :
            /\ b_hist[k].wrote = {}
            /\ ~b_results[k].patch_generated
            /\ b_results[k].patch_path = "None"
            /\ b_results[k].error # "None"
            /\ b_hist[k].calls = 1

\* The generated flag of a row of the running script.
GeneratedFlag(row) ==
    IF script = "documenter" THEN row.doc_generated ELSE row.patch_generated

\* An exception was raised while task k was handled: out of the try block,
\* or inside the model call.
ExceptionAt(k) ==
    b_hist[k].exc # "None" \/ (b_hist[k].calls >= 1 /\ b_hist[k].response.raises)

\* Every handled task has its row, and a task that met an exception has an
\* error string in it and nothing generated.
BatchRowsKept ==
    /\ b_pc # "crashed"
    /\ Len(b_results) = b_i /\ Len(b_hist) = b_i
    /\ \A k \in 1..Len(b_results) :
          /\ b_results[k].instance_id = b_tasks[k].instance_id
          /\ ExceptionAt(k) =>
                (b_results[k].error # "None" /\ ~GeneratedFlag(b_results[k]))
    /\ b_pc = "done" => b_i = Len(b_tasks)

\* While tasks are left, a step of the batch handles the next one and stays
\* in the loop.
BatchGoesOn ==
    (b_pc = "loop" /\ b_i < Len(b_tasks)) => (b_pc' = "loop" /\ b_i' = b_i + 1)

PairSeq(ts, Base(_)) == [k \in 1..Len(ts) |-> << ts[k].repo, Base(ts[k]) >>]

\* The pairs of the metadata files that satisfy a condition, in order.
FilePairs(files, Cond(_)) ==
    PairSeq(SelectSeq(files, Cond), LAMBDA f : f.base_commit)

\* The file can be read and names a repository and a base revision.
HasRepoAndBase(f) == f.parses /\ f.repo # "" /\ f.base_commit # ""

\* A batch script has loaded its tasks without a success filter.
LoadedUnfiltered ==
    b_pc \in { "start", "loop", "done" } /\ ~arg.ledger.exists

\* The orchestrator's loader gives one task for each metadata file that has
\* a repository and a base revision, in order, and none for any other file.
MainLoadsRepoAndBase ==
    \A k \in 1..Len(ret) :
        ret[k].fn = "main" =>
            PairSeq(ret[k].out, LAMBDA t : t.base) =
                FilePairs(arg.files, HasRepoAndBase)

LoadedFiltered ==
    b_pc \in { "start", "loop", "done" } /\ arg.ledger.exists

\* The file can be read and has the three fields load_oracle_tasks asks for.
WellFormed(f) == HasRepoAndBase(f) /\ f.instance_id # ""

\* The pairs that have a row with fix_patch PASS in the ledger of arg.
PassedPairs == PairsWhere(arg.ledger.lines, LAMBDA r : r.fix_patch = "PASS")

\* C22: with a success filter, the tasks a batch script gets are the
\* well-formed metadata files whose pair has a ledger row with fix_patch
\* PASS, in order: a task whose pair has only other rows, or no row, is not
\* among them.
C22_FilterKeepsPassedPairs ==
    LoadedFiltered =>
        /\ PairSeq(b_tasks, LAMBDA t : t.base_commit) =
              FilePairs(arg.files,
                        LAMBDA f : WellFormed(f) /\
                                   << f.repo, f.base_commit >> \in PassedPairs)
        /\ \A k \in 1..Len(b_tasks) :
              \E row \in RowsOf(arg.ledger.lines) :
                  /\ PairOfRow(row) = << b_tasks[k].repo, b_tasks[k].base_commit >>
                  /\ row.fix_patch = "PASS"

\* The ledger has a PASS row for one revision and a FAIL row for another;
\* the dataset has a well-formed file for each; the batch script got the
\* first one only.
C22_Witness ==
    /\ LoadedFiltered
    /\ Len(arg.files) = 2
    /\ \A k \in 1..2 : WellFormed(arg.files[k])
    /\ << arg.files[1].repo, arg.files[1].base_commit >> \in PassedPairs
    /\ << arg.files[2].repo, arg.files[2].base_commit >> \in
           PairsWhere(arg.ledger.lines, LAMBDA r : r.fix_patch = "FAIL")
    /\ Len(b_tasks) = 1
    /\ b_tasks[1].base_commit = arg.files[1].base_commit

\* C28: when the ledger file does not exist the batch script gets every
\* well-formed task of the dataset; when it exists and has no row with
\* fix_patch PASS (an empty file included) the script gets no task and ends
\* without entering its loop: no task handled, no row, no file.
C28_FilterEdgeCases ==
    /\ LoadedUnfiltered =>
          PairSeq(b_tasks, LAMBDA t : t.base_commit) =
              FilePairs(arg.files, WellFormed)
    /\ (LoadedFiltered /\ PassedPairs = {}) =>
          /\ b_tasks = <<>>
          /\ b_pc \in { "start", "done" }
          /\ b_i = 0 /\ b_results = <<>> /\ b_files = {}

\* A batch script has ended on a dataset with a well-formed file because the
\* ledger file exists and is empty.
C28_Witness ==
    /\ LoadedFiltered
    /\ arg.ledger.lines = <<>>
    /\ \E k \in 1..Len(arg.files) : WellFormed(arg.files[k])
    /\ b_pc = "done"
    /\ b_results = <<>>

\* C23: create_venv_and_install returns False exactly when removing an
\* environment that is there, creating the new one, upgrading the package
\* manager or the editable install exits non-zero; the exit status of the
\* test runner install changes neither the result nor the environment left.
C23_BuildFailureAsymmetry ==
    (arg \in VenvInputs /\ ret # <<>>) =>
        /\ ret[1].ok <=>
              /\ arg.w.venv.state # "none" => arg.codes[1] = 0
              /\ \A k \in 2..4 : arg.codes[k] = 0
        /\ ret[1] = create_venv_and_install(arg.w, << 1, 1, "baseline" >>,
                                            [arg.codes EXCEPT ![5] = 0])

\* A build over an old environment has succeeded although the test runner
\* install exited non-zero.
C23_Witness ==
    /\ arg \in VenvInputs
    /\ ret # <<>>
    /\ arg.w.venv.state # "none"
    /\ arg.codes[5] # 0
    /\ ret[1].ok
    /\ ret[1].w.venv.state = "ok"

ReposWithRow == { AppendedRows[k].row.repo : k \in 1..Len(AppendedRows) }

\* The processed set is the set of repositories with a row of this run, it
\* never has more than MAX_REPOS members, and the loop is running only
\* while it has fewer.
CapKept ==
    pc # "start" =>
        /\ repos_processed = ReposWithRow
        /\ Cardinality(ReposWithRow) <= MAX_REPOS
        /\ pc \in StepPcs \cup { "loop" } =>
              Cardinality(repos_processed) < MAX_REPOS

\* A step that ends a task with an error record leaves the processed set as
\* it is and goes on with the loop; the loop is left from inside a task only
\* by the fix_patch test run, with the cap reached.
CapOnlyAfterFullTask ==
    /\ (Len(results') > Len(results) /\ results'[Len(results')].note # "ok") =>
          (repos_processed' = repos_processed /\ pc' = "loop")
    /\ (pc \in StepPcs /\ pc' = "done") =>
          (pc = "f_test" /\ Cardinality(repos_processed') >= MAX_REPOS)

OkRecords == SelectSeq(results, LAMBDA r : r.note = "ok")

\* The queue of a run is the dataset without the tasks whose pair has a row
\* in the ledger as it was when the run started, whatever the run has
\* written since; every record with note "ok" has its own row, in order.
QueueFromStartLedger ==
    pc # "start" =>
        /\ completed_tasks = { PairOfRow(row) : row \in RowsOf(ledger0) }
        /\ tasks = SelectSeq(loaded,
                       LAMBDA t : PairOfTask(t) \notin
                                    { PairOfRow(row) : row \in RowsOf(ledger0) })
        /\ Len(AppendedRows) = Len(OkRecords)
        /\ \A k \in 1..Len(OkRecords) : AppendedRows[k].row = OkRecords[k]

\* Within a run no step changes the completed set or the queue.
FilterFixedInRun ==
    (pc # "start" /\ pc' # "start") =>
        (completed_tasks' = completed_tasks /\ tasks' = tasks)

\* C26: the resume filter is computed once, when the run starts, and is not
\* updated while the run goes on: two tasks of the dataset with the same
\* (repo, base_commit) pair that has no row at the start are both queued, and
\* each one that runs all three stages appends its own row.
C26_FilterComputedOnce ==
    [][QueueFromStartLedger' /\ FilterFixedInRun]_vars

\* One run has appended two rows for the same pair.
C26_Witness ==
    /\ run = 1
    /\ Len(AppendedRows) = 2
    /\ PairOfRow(AppendedRows[1].row) = PairOfRow(AppendedRows[2].row)
    /\ PairOfRow(AppendedRows[1].row) \notin completed_tasks

\* The rows the current run of the batch script has appended.
RunRows == SubSeq(b_results, b_run.rows0 + 1, Len(b_results))

\* The generated flag and the saved path of a row of either kind of script.
RowGenerated(row) ==
    IF "doc_generated" \in DOMAIN row THEN row.doc_generated
    ELSE row.patch_generated

RowPath(row) ==
    IF "doc_path" \in DOMAIN row THEN row.doc_path ELSE row.patch_path

\* C27: in every run of baseline.py, coder.py and documenter.py the rows
\* appended are one per loaded task handled so far, in task order, whether or
\* not the task succeeded; in every row the generated flag is true exactly
\* when the saved path is not null and exactly when error is null; a run
\* starts with one row per task from every earlier run, so a second run
\* appends a second row for every task.
C27_OneRowPerTaskPerRun ==
    script \in Scripts =>
        /\ Len(RunRows) = b_i
        /\ \A k \in 1..b_i :
              /\ RunRows[k].instance_id = b_tasks[k].instance_id
              /\ RunRows[k].repo = b_tasks[k].repo
        /\ b_pc = "done" => b_i = Len(b_tasks)
        /\ b_run.rows0 = (b_run.n - 1) * Len(b_tasks)
        /\ \A k \in 1..Len(b_results) :
              /\ RowGenerated(b_results[k]) <=> RowPath(b_results[k]) # "None"
              /\ RowGenerated(b_results[k]) <=> b_results[k].error = "None"

\* A second run over two tasks has ended: the file has two rows for each
\* task, among them a row of a task that failed and a row of one that
\* succeeded.
C27_Witness ==
    /\ script \in Scripts
    /\ b_run.n = 2
    /\ b_pc = "done"
    /\ Len(b_tasks) = 2
    /\ Len(b_results) = 4
    /\ b_results[3].instance_id = b_results[1].instance_id
    /\ b_results[4].instance_id = b_results[2].instance_id
    /\ \E k \in 1..4 : b_hist[k].exc # "None"
    /\ \E k \in 1..4 : RowGenerated(b_results[k])

====
